---- MODULE Spec2Model ----
(***************************************************************************)
(* The vector-store client of kb-app (src/src/lib/openaiClient.ts) run     *)
(* against a modelled remote store, and the page that calls it             *)
(* (src/src/App.tsx).  Spec follows one client call at a time; every fetch *)
(* is a step at which the remote answers with one of the response shapes   *)
(* the transport can produce.  UISpec follows the page's handlers, several *)
(* of which may be in flight against the same remote.                      *)
(***************************************************************************)
EXTENDS Integers, Sequences, FiniteSets, TLC

VARIABLES
    call,       \* the operation in progress or last finished, with its arguments
    pc,         \* the await the call is suspended at; "done" once it has settled,
                \* "idle" once the caller has taken the result
    requests,   \* the fetches issued by the call, in issue order, with their responses
    outcome,    \* how the call settled: a returned ApiResult or a thrown error
    upRaw,      \* uploadFile: `uploaded.data` of the raw-file step
    upResult,   \* replaceFile: `uploaded`, the result of its uploadFile
    files,      \* listFiles: the local `file` of each map callback
    items,      \* listFiles: the slots of Promise.all, one per listed item
    pending,    \* listFiles: indices whose detail fetch has not settled
    settled,    \* listFiles: the indices in the order their detail fetches settled
    rawFiles,   \* remote: raw files, as records [id, filename]
    assocs,     \* remote: the vector store's file associations [id, file_id]
    nextFile,   \* remote: number of raw files created so far
    uploadedOk, \* [assoc, name] of each uploadFile that returned success, until deleted
    assocs0,    \* remote: the associations that existed when the call began
    uiSettings, \* App: `settings`
    uiFiles,    \* App: `files`, the local file list
    filesLoading, \* App: busy flag of refreshFiles
    uploading,  \* App: busy flag of handleUpload and handleReplace
    error,      \* App: `error`, the message shown, or NoError
    chatMessages, \* App: the conversation
    chatSending, \* App: busy flag of handleAsk
    task,       \* App: per handler, the invocation in progress and the fetch it awaits
    started     \* App: the number of handler invocations made so far

clientVars == <<call, pc, requests, outcome, upRaw, upResult, files, items, pending,
                settled, uploadedOk, assocs0>>

uiVars == <<uiSettings, uiFiles, filesLoading, uploading, error, chatMessages,
            chatSending, task, started>>

vars == <<call, pc, requests, outcome, upRaw, upResult, files, items, pending, settled,
          rawFiles, assocs, nextFile, uploadedOk, assocs0,
          uiSettings, uiFiles, filesLoading, uploading, error, chatMessages,
          chatSending, task, started>>

----------------------------------------------------------------------------
(* Bounds and input sets *)

MaxFiles == 2

Undef == "undefined"

FileNames == {"a.txt", "b.txt"}

SettingsSet == [apiKey : {"", "sk"}, model : {"gpt-5-nano"}, vectorStoreId : {"", "vs1"}]

StoreNames == {"", " \t", " kb\n"}

Questions == {"", " \t\n", "hi", " hi "}

Histories ==
    { <<>>,
      <<[role |-> "system", content |-> "be brief"], [role |-> "user", content |-> "hi"],
        [role |-> "assistant", content |-> "Paris"]>> }

Min(a, b) == IF a < b THEN a ELSE b

RawId(n) == "file-" \o ToString(n)

AssocId(n) == "vsf-" \o ToString(n)

AllAssocIds == {AssocId(n) : n \in 1..MaxFiles}

----------------------------------------------------------------------------
(* ApiResult and the ways a call settles *)

NoData == [none |-> TRUE]

Ok(d) == [kind |-> "ok", data |-> d, error |-> Undef]

Fail(e) == [kind |-> "fail", data |-> NoData, error |-> e]

Thrown(e) == [kind |-> "throw", data |-> NoData, error |-> e]

NoOutcome == [kind |-> "none", data |-> NoData, error |-> Undef]

(* ensureSettings without its second check *)
ensureSettingsKeyOnly(settings) ==
    IF settings.apiKey = "" THEN "Missing API key" ELSE Undef

(* ensureSettings: the message it throws, or Undef when it passes *)
ensureSettings(settings) ==
    IF settings.apiKey = "" THEN "Missing API key"
    ELSE IF settings.vectorStoreId = "" THEN "Missing vector store id"
    ELSE Undef

----------------------------------------------------------------------------
(* JSON values that may be absent or of any type, tagged by their          *)
(* JavaScript type                                                         *)

JUndef == [t |-> "undefined"]

JNull == [t |-> "null"]

JStr(s) == [t |-> "string", s |-> s]

JNum(n) == [t |-> "number", n |-> n]

JBool(b) == [t |-> "boolean", b |-> b]

JArr(a) == [t |-> "array", a |-> a]

JObj(o) == [t |-> "object", o |-> o]

(* value.field, for a value that is not null or undefined *)
Get(v, f) == IF v.t = "object" /\ f \in DOMAIN v.o THEN v.o[f] ELSE JUndef

(* a ?? b *)
Nullish(v) == v.t \in {"undefined", "null"}

JCoalesce(a, b) == IF Nullish(a) THEN b ELSE a

IsStr(v, s) == v.t = "string" /\ v.s = s

(* Date.now(): the clock reads NowSeconds seconds since the epoch, and     *)
(* Date.now() gives that instant in milliseconds                           *)
NowSeconds == 1700

DateNow == NowSeconds * 1000

----------------------------------------------------------------------------
(* Responses.  net = FALSE: fetch rejected (transport failure).  Otherwise  *)
(* ok is res.ok, json says whether res.json() parses, body is the parsed   *)
(* value.                                                                  *)

NoBody == [none |-> TRUE]

TransportFailure ==
    [net |-> FALSE, ok |-> FALSE, json |-> FALSE, status |-> Undef, body |-> NoBody]

Pending ==
    [net |-> FALSE, ok |-> FALSE, json |-> FALSE, status |-> "pending", body |-> NoBody]

ErrorResponses ==
    { [net |-> TRUE, ok |-> FALSE, json |-> TRUE, status |-> "401 Unauthorized",
       body |-> [error_message |-> "bad key"]],
      [net |-> TRUE, ok |-> FALSE, json |-> TRUE, status |-> "500 Internal Server Error",
       body |-> [error_message |-> Undef]],
      [net |-> TRUE, ok |-> FALSE, json |-> FALSE, status |-> "502 Bad Gateway",
       body |-> NoBody] }

NotFound ==
    [net |-> TRUE, ok |-> FALSE, json |-> TRUE, status |-> "404 Not Found",
     body |-> [error_message |-> "No such File object"]]

Good(body) == [net |-> TRUE, ok |-> TRUE, json |-> TRUE, status |-> "200 OK", body |-> body]

Garbled == [net |-> TRUE, ok |-> TRUE, json |-> FALSE, status |-> "200 OK", body |-> NoBody]

(* handleResponse without the look into the error body *)
handleResponseStatusOnly(res) ==
    IF res.ok
    THEN IF res.json THEN Ok(res.body) ELSE Thrown("SyntaxError")
    ELSE Fail(res.status)

(* handleResponse, applied to a response that arrived (net = TRUE) *)
handleResponse(res) ==
    IF res.ok
    THEN IF res.json THEN Ok(res.body) ELSE Thrown("SyntaxError")
    ELSE Fail(IF res.json /\ res.body.error_message # Undef
              THEN res.body.error_message
              ELSE res.status)

(* `await fetch(...)` followed by `await handleResponse(res)` *)
fetchResult(res) ==
    IF res.net THEN handleResponse(res) ELSE Thrown("TypeError: Failed to fetch")

----------------------------------------------------------------------------
(* The request log *)

Request(kind, arg) == [kind |-> kind, arg |-> arg, res |-> Pending]

Answered(log, i, res) == [log EXCEPT ![i].res = res]

Issued(kind) == {i \in 1..Len(requests) : requests[i].kind = kind}

NoCall ==
    [op |-> "none", settings |-> [apiKey |-> "", model |-> "", vectorStoreId |-> ""],
     file |-> Undef, fileId |-> Undef, question |-> "", history |-> <<>>, name |-> ""]

(* App.tsx lines 15-24: the state of the page before any handler has run *)
Handlers == {"refresh", "upload", "replace", "delete", "ask"}

NoError == "null"

NoArg == [file |-> Undef, fileId |-> Undef, question |-> "", history |-> <<>>]

IdleTask ==
    [stage |-> "idle", req |-> Request("none", NoArg), arg |-> NoArg,
     upRaw |-> NoData, upResult |-> NoOutcome]

DefaultSettings == [apiKey |-> "", model |-> "gpt-5-nano", vectorStoreId |-> ""]

AppMounts(s) ==
    /\ uiSettings = s
    /\ uiFiles = <<>>
    /\ filesLoading = FALSE
    /\ uploading = FALSE
    /\ error = NoError
    /\ chatMessages = <<>>
    /\ chatSending = FALSE
    /\ task = [h \in Handlers |-> IdleTask]
    /\ started = 0

(* no client call has been made and the store is empty *)
ClientInit ==
    /\ call = NoCall
    /\ pc = "idle"
    /\ requests = <<>>
    /\ outcome = NoOutcome
    /\ upRaw = NoData
    /\ upResult = NoOutcome
    /\ files = <<>>
    /\ items = <<>>
    /\ pending = {}
    /\ settled = <<>>
    /\ rawFiles = {}
    /\ assocs = {}
    /\ nextFile = 0
    /\ uploadedOk = {}
    /\ assocs0 = {}

Init == AppMounts(DefaultSettings) /\ ClientInit


listVars == <<files, items, pending, settled>>

remoteVars == <<rawFiles, assocs, nextFile>>

----------------------------------------------------------------------------
(* The remote: the answers it can give to each request, each with the      *)
(* state it leaves behind.  A 2xx answer is given only to a request the    *)
(* remote carried out; a lost response (transport failure) may follow a    *)
(* request that was carried out or one that never arrived.                 *)

Refusals == ErrorResponses \cup {TransportFailure}

(* POST /files *)
UploadAnswers(name) ==
    LET id == RawId(nextFile + 1)
        carried == {Good([id |-> id]), Good([id |-> Undef]), Garbled, TransportFailure}
    IN  (IF nextFile < MaxFiles
         THEN {[res |-> r, raw |-> rawFiles \cup {[id |-> id, filename |-> name]},
                next |-> nextFile + 1] : r \in carried}
         ELSE {})
        \cup {[res |-> r, raw |-> rawFiles, next |-> nextFile] : r \in Refusals}

(* the association the store makes of a raw file *)
AssocOf(file_id) ==
    [id |-> AssocId(CHOOSE n \in 1..MaxFiles : RawId(n) = file_id), file_id |-> file_id]

(* POST /vector_stores/{id}/files *)
AttachAnswers(file_id) ==
    LET attachable == /\ \E f \in rawFiles : f.id = file_id
                      /\ \A a \in assocs : a.file_id # file_id
        carried == {Good([id |-> AssocOf(file_id).id, usage_bytes |-> JNum(0),
                          status |-> "completed", created_at |-> JNum(NowSeconds)]),
                    Good([id |-> Undef, usage_bytes |-> JUndef,
                          status |-> Undef, created_at |-> JUndef]),
                    Garbled, TransportFailure}
    IN  (IF attachable
         THEN {[res |-> r, assocs |-> assocs \cup {AssocOf(file_id)}] : r \in carried}
         ELSE {})
        \cup {[res |-> r, assocs |-> assocs] : r \in Refusals}

(* DELETE /vector_stores/{id}/files/{fileId} *)
DeleteAnswers(fileId) ==
    LET carried == {Good([id |-> fileId]), Garbled, TransportFailure}
    IN  (IF \E a \in assocs : a.id = fileId
         THEN {[res |-> r, assocs |-> {a \in assocs : a.id # fileId}] : r \in carried}
         ELSE {})
        \cup {[res |-> r, assocs |-> assocs] : r \in Refusals}

----------------------------------------------------------------------------
(* uploadFile, deleteFile, replaceFile *)

MkCall(op, s) ==
    [op |-> op, settings |-> s, file |-> Undef, fileId |-> Undef,
     question |-> "", history |-> <<>>, name |-> ""]

Coalesce(a, b) == IF a # Undef THEN a ELSE b

(* replaceFile deleting the old association whenever the upload returned *)
replaceDeletesAlways(uploaded) == uploaded.kind # "throw"

(* replaceFile line 163: go on to the delete only when the upload succeeded *)
replaceDeletes(uploaded) == uploaded.kind = "ok"

(* deleteFile up to its fetch, called by replaceFile after the upload: the  *)
(* request log it leaves and, when it returns at once, what replaceFile    *)
(* then returns                                                            *)
replaceAfterUpload(c, uploaded, log) ==
    IF ensureSettings(c.settings) # Undef
    THEN /\ requests' = log
         /\ pc' = "done"
         /\ outcome' = uploaded
    ELSE /\ requests' = Append(log, Request("delete", [id |-> c.fileId]))
         /\ pc' = "delete"
         /\ outcome' = NoOutcome

(* uploadFile settles with `uploaded`: its caller goes on *)
uploadReturns(c, uploaded, log) ==
    IF c.op = "replaceFile" /\ replaceDeletes(uploaded)
    THEN /\ upResult' = uploaded
         /\ replaceAfterUpload(c, uploaded, log)
    ELSE /\ upResult' = NoOutcome
         /\ requests' = log
         /\ pc' = "done"
         /\ outcome' = uploaded

(* uploadFile lines 96-111: the settings check, then the raw-file request *)
uploadStart(c) ==
    /\ call' = c
    /\ assocs0' = assocs
    /\ upRaw' = NoData
    /\ IF ensureSettings(c.settings) # Undef
       THEN uploadReturns(c, Fail(ensureSettings(c.settings)), <<>>)
       ELSE /\ requests' = <<Request("upload", [name |-> c.file])>>
            /\ pc' = "upload"
            /\ outcome' = NoOutcome
            /\ upResult' = NoOutcome
    /\ files' = <<>> /\ items' = <<>> /\ pending' = {} /\ settled' = <<>>
    /\ UNCHANGED <<remoteVars, uploadedOk>>

CallUploadFile(f, s) ==
    /\ pc = "idle"
    /\ uploadStart([MkCall("uploadFile", s) EXCEPT !.file = f])
    /\ UNCHANGED uiVars

CallReplaceFile(existingFileId, f, s) ==
    /\ pc = "idle"
    /\ uploadStart([MkCall("replaceFile", s) EXCEPT !.file = f, !.fileId = existingFileId])
    /\ UNCHANGED uiVars

(* uploadFile lines 112-122: the raw-file response, then the attach request *)
uploadAttaches(uploaded) == uploaded.kind = "ok"

uploadSettles(ans) ==
    /\ rawFiles' = ans.raw
    /\ nextFile' = ans.next
    /\ LET log == Answered(requests, Len(requests), ans.res)
           uploaded == fetchResult(ans.res)
       IN  IF uploadAttaches(uploaded)
           THEN /\ upRaw' = uploaded.data
                /\ requests' = Append(log, Request("attach", [file_id |-> uploaded.data.id]))
                /\ pc' = "attach"
                /\ UNCHANGED <<outcome, upResult>>
           ELSE /\ upRaw' = upRaw
                /\ uploadReturns(call, uploaded, log)
    /\ UNCHANGED <<call, listVars, assocs, uploadedOk, assocs0>>

UploadResponse ==
    /\ pc = "upload"
    /\ \E ans \in UploadAnswers(call.file) : uploadSettles(ans)
    /\ UNCHANGED uiVars

(* uploadFile lines 126-132 *)
knowledgeFile(attachedData, uploadedData, file) ==
    [id |-> Coalesce(attachedData.id, uploadedData.id),
     filename |-> file,
     bytes |-> JCoalesce(attachedData.usage_bytes, JNum(Len(file))),
     status |-> Coalesce(attachedData.status, "in_progress"),
     created_at |-> JCoalesce(attachedData.created_at, JNum(DateNow))]

(* uploadFile lines 123-134: the attach response *)
attachSettles(ans) ==
    /\ assocs' = ans.assocs
    /\ LET log == Answered(requests, Len(requests), ans.res)
           attached == fetchResult(ans.res)
           uploaded == IF attached.kind = "ok"
                       THEN Ok(knowledgeFile(attached.data, upRaw, call.file))
                       ELSE attached
       IN  /\ uploadReturns(call, uploaded, log)
           /\ uploadedOk' = IF uploaded.kind = "ok"
                            THEN uploadedOk \cup
                                 {[assoc |-> AssocOf(upRaw.id).id, name |-> call.file]}
                            ELSE uploadedOk
    /\ UNCHANGED <<call, upRaw, listVars, rawFiles, nextFile, assocs0>>

AttachResponse ==
    /\ pc = "attach"
    /\ \E ans \in AttachAnswers(requests[Len(requests)].arg.file_id) : attachSettles(ans)
    /\ UNCHANGED uiVars

(* deleteFile lines 137-150 *)
CallDeleteFile(fileId, s) ==
    /\ pc = "idle"
    /\ call' = [MkCall("deleteFile", s) EXCEPT !.fileId = fileId]
    /\ assocs0' = assocs
    /\ IF ensureSettings(s) # Undef
       THEN /\ requests' = <<>>
            /\ pc' = "done"
            /\ outcome' = Fail(ensureSettings(s))
       ELSE /\ requests' = <<Request("delete", [id |-> fileId])>>
            /\ pc' = "delete"
            /\ outcome' = NoOutcome
    /\ upRaw' = NoData
    /\ upResult' = NoOutcome
    /\ files' = <<>> /\ items' = <<>> /\ pending' = {} /\ settled' = <<>>
    /\ UNCHANGED <<remoteVars, uploadedOk>>
    /\ UNCHANGED uiVars

(* replaceFile lines 165-166: what it settles with once deleteFile has *)
replaceReturns(uploaded, deleted) ==
    IF deleted.kind = "throw" THEN deleted ELSE uploaded

(* deleteFile lines 152-154, and the caller's continuation *)
deleteSettles(ans) ==
    /\ assocs' = ans.assocs
    /\ uploadedOk' = {u \in uploadedOk : \E a \in ans.assocs : a.id = u.assoc}
    /\ requests' = Answered(requests, Len(requests), ans.res)
    /\ pc' = "done"
    /\ LET parsed == fetchResult(ans.res)
           deleted == IF parsed.kind = "ok" THEN Ok([value |-> TRUE]) ELSE parsed
       IN  outcome' = IF call.op = "replaceFile"
                      THEN replaceReturns(upResult, deleted)
                      ELSE deleted
    /\ UNCHANGED <<call, upRaw, upResult, listVars, rawFiles, nextFile, assocs0>>

DeleteResponse ==
    /\ pc = "delete"
    /\ \E ans \in DeleteAnswers(requests[Len(requests)].arg.id) : deleteSettles(ans)
    /\ UNCHANGED uiVars

----------------------------------------------------------------------------
(* listFiles *)

PageLimit == 100

Perms(S) ==
    {p \in [1..Cardinality(S) -> S] : \A i, j \in 1..Cardinality(S) : p[i] = p[j] => i = j}

(* the listing item the store gives for an association *)
ListingItem(a, withNames) ==
    IF withNames
    THEN [id |-> a.id, file_id |-> a.file_id,
          filename |-> (CHOOSE f \in rawFiles : f.id = a.file_id).filename,
          usage_bytes |-> JNum(2048), status |-> "completed",
          created_at |-> JNum(NowSeconds), metadata |-> JObj([kind |-> JStr("doc")])]
    ELSE [id |-> a.id, file_id |-> a.file_id, filename |-> Undef,
          usage_bytes |-> JUndef, status |-> Undef,
          created_at |-> JUndef, metadata |-> JUndef]

(* GET /vector_stores/{id}/files?limit=N: at most N associations, in an    *)
(* order of the store's choosing, with or without the optional fields on   *)
(* each item                                                               *)
ListAnswers(limit) ==
    {Good([hasData |-> TRUE,
           data |-> [i \in 1..Min(Len(p), limit) |-> ListingItem(p[i], withNames)]]) :
        p \in Perms(assocs), withNames \in BOOLEAN}
    \cup {Good([hasData |-> FALSE, data |-> <<>>]), Garbled}
    \cup Refusals

(* GET /files/{file_id}; the client never reads the body of a non-2xx     *)
(* detail response, so one such response stands for all of them            *)
DetailAnswers(file_id) ==
    (IF \E f \in rawFiles : f.id = file_id
     THEN LET name == (CHOOSE f \in rawFiles : f.id = file_id).filename
          IN  {Good([filename |-> name, bytes |-> JNum(Len(name)),
                     created_at |-> JNum(NowSeconds - 1),
                     metadata |-> JObj([purpose |-> JStr("assistants")]),
                     status |-> "processed"]),
               Good([filename |-> Undef, bytes |-> JNum(Len(name)),
                     created_at |-> JUndef, metadata |-> JUndef, status |-> "processed"]),
               Good([filename |-> Undef, bytes |-> JUndef,
                     created_at |-> JUndef, metadata |-> JUndef, status |-> Undef]),
               Garbled}
     ELSE {})
    \cup {NotFound, TransportFailure}

Unsettled == [id |-> Undef, filename |-> Undef]

(* listFiles lines 46-56 *)
CallListFiles(s) ==
    /\ pc = "idle"
    /\ call' = MkCall("listFiles", s)
    /\ assocs0' = assocs
    /\ IF ensureSettings(s) # Undef
       THEN /\ requests' = <<>>
            /\ pc' = "done"
            /\ outcome' = Fail(ensureSettings(s))
       ELSE /\ requests' = <<Request("list", [limit |-> PageLimit])>>
            /\ pc' = "list"
            /\ outcome' = NoOutcome
    /\ upRaw' = NoData
    /\ upResult' = NoOutcome
    /\ files' = <<>> /\ items' = <<>> /\ pending' = {} /\ settled' = <<>>
    /\ UNCHANGED <<remoteVars, uploadedOk>>
    /\ UNCHANGED uiVars

(* listFiles lines 62-69: the entry built from the listing item alone *)
baseFile(item) ==
    [id |-> item.id,
     filename |-> Coalesce(item.filename, Coalesce(item.file_id, item.id)),
     bytes |-> JCoalesce(item.usage_bytes, JNum(0)),
     status |-> Coalesce(item.status, "unknown"),
     created_at |-> JCoalesce(item.created_at, JNum(DateNow)),
     metadata |-> JCoalesce(item.metadata, JObj(<<>>))]

(* listFiles line 72: the detail request of an item *)
detailRequest(item) == Request("detail", [file_id |-> Coalesce(item.file_id, item.id)])

(* listFiles line 58: the detail fetches are made only for a parsed listing *)
listFansOut(parsed) == parsed.kind = "ok"

(* listFiles lines 57-72: the listing response, then every detail request *)
listSettles(res) ==
    LET log == Answered(requests, 1, res)
        parsed == fetchResult(res)
    IN  IF ~listFansOut(parsed)
        THEN /\ requests' = log
             /\ outcome' = parsed
             /\ pc' = "done"
             /\ UNCHANGED listVars
        ELSE IF ~parsed.data.hasData
        THEN /\ requests' = log
             /\ outcome' = Thrown("TypeError: parsed.data.data is undefined")
             /\ pc' = "done"
             /\ UNCHANGED listVars
        ELSE LET data == parsed.data.data
             IN  /\ requests' = log \o [i \in 1..Len(data) |-> detailRequest(data[i])]
                 /\ files' = [i \in 1..Len(data) |-> baseFile(data[i])]
                 /\ items' = [i \in 1..Len(data) |-> Unsettled]
                 /\ pending' = 1..Len(data)
                 /\ settled' = <<>>
                 /\ IF Len(data) = 0
                    THEN outcome' = Ok([items |-> <<>>]) /\ pc' = "done"
                    ELSE outcome' = NoOutcome /\ pc' = "details"

ListResponse ==
    /\ pc = "list"
    /\ \E res \in ListAnswers(requests[1].arg.limit) : listSettles(res)
    /\ UNCHANGED <<call, upRaw, upResult, remoteVars, uploadedOk, assocs0>>
    /\ UNCHANGED uiVars

(* enrichment that never replaces the entry's filename *)
enrichKeepsPrimary(file, res) == file

(* enrichment that takes every field the detail supplies *)
enrichSpreadsDetail(file, res) ==
    IF res.net /\ res.ok /\ res.json
    THEN [file EXCEPT !.filename = Coalesce(res.body.filename, file.filename),
                      !.bytes = JCoalesce(res.body.bytes, file.bytes),
                      !.metadata = JCoalesce(res.body.metadata, file.metadata),
                      !.created_at = JCoalesce(res.body.created_at, file.created_at),
                      !.status = Coalesce(res.body.status, file.status)]
    ELSE file

(* listFiles lines 71-89: the try block around one item's detail fetch *)
enrich(file, res) ==
    IF res.net /\ res.ok /\ res.json
    THEN [file EXCEPT !.filename = Coalesce(res.body.filename, file.filename),
                      !.bytes = JCoalesce(res.body.bytes, file.bytes),
                      !.metadata = JCoalesce(res.body.metadata, file.metadata),
                      !.created_at = JCoalesce(res.body.created_at, file.created_at)]
    ELSE file

(* results collected in the order the callbacks settle *)
settleSlotInCompletionOrder(slots, i, file) ==
    [slots EXCEPT ![Len(slots) - Cardinality(pending) + 1] = file]

(* Promise.all, line 60: a settled callback fills the slot of its own index *)
settleSlot(slots, i, file) == [slots EXCEPT ![i] = file]

(* one detail fetch settles; the last one to settle resolves Promise.all *)
detailSettles(i, res) ==
    LET slots == settleSlot(items, i, enrich(files[i], res))
    IN  /\ requests' = Answered(requests, 1 + i, res)
        /\ items' = slots
        /\ pending' = pending \ {i}
        /\ settled' = Append(settled, i)
        /\ IF pending = {i}
           THEN outcome' = Ok([items |-> slots]) /\ pc' = "done"
           ELSE UNCHANGED <<outcome, pc>>
        /\ UNCHANGED files

DetailResponse ==
    /\ pc = "details"
    /\ \E i \in pending :
          \E res \in DetailAnswers(requests[1 + i].arg.file_id) : detailSettles(i, res)
    /\ UNCHANGED <<call, upRaw, upResult, remoteVars, uploadedOk, assocs0>>
    /\ UNCHANGED uiVars

----------------------------------------------------------------------------
(* String.prototype.trim *)

Whitespace == {" ", "\t", "\n"}

RECURSIVE TrimStart(_)
TrimStart(t) ==
    IF t # "" /\ Head(t) \in Whitespace THEN TrimStart(Tail(t)) ELSE t

RECURSIVE TrimEnd(_)
TrimEnd(t) ==
    IF t # "" /\ SubSeq(t, Len(t), Len(t)) \in Whitespace
    THEN TrimEnd(SubSeq(t, 1, Len(t) - 1))
    ELSE t

Trim(t) == TrimEnd(TrimStart(t))

----------------------------------------------------------------------------
(* createVectorStore *)

(* POST /vector_stores *)
CreateAnswers(name) ==
    {Good([id |-> "vs_new", name |-> name]), Good([id |-> "vs_new", name |-> Undef]), Garbled}
    \cup Refusals

(* createVectorStore lines 34-35: the message thrown, or Undef *)
createPrecondition(name, settings) ==
    IF Trim(name) = "" THEN "Vector store name is required"
    ELSE IF settings.apiKey = "" THEN "API key required"
    ELSE Undef

(* createVectorStore lines 33-41 *)
CallCreateVectorStore(name, s) ==
    /\ pc = "idle"
    /\ call' = [MkCall("createVectorStore", s) EXCEPT !.name = name]
    /\ assocs0' = assocs
    /\ IF createPrecondition(name, s) # Undef
       THEN /\ requests' = <<>>
            /\ pc' = "done"
            /\ outcome' = Thrown(createPrecondition(name, s))
       ELSE /\ requests' = <<Request("createStore", [name |-> name])>>
            /\ pc' = "create"
            /\ outcome' = NoOutcome
    /\ upRaw' = NoData
    /\ upResult' = NoOutcome
    /\ files' = <<>> /\ items' = <<>> /\ pending' = {} /\ settled' = <<>>
    /\ UNCHANGED <<remoteVars, uploadedOk>>
    /\ UNCHANGED uiVars

(* createVectorStore line 43 *)
createSettles(res) ==
    /\ requests' = Answered(requests, 1, res)
    /\ outcome' = fetchResult(res)
    /\ pc' = "done"

CreateResponse ==
    /\ pc = "create"
    /\ \E res \in CreateAnswers(requests[1].arg.name) : createSettles(res)
    /\ UNCHANGED <<call, upRaw, upResult, listVars, remoteVars, uploadedOk, assocs0>>
    /\ UNCHANGED uiVars

----------------------------------------------------------------------------
(* the chat response: JSON.stringify and toText *)

(* the order in which JSON.stringify writes the keys of the modelled bodies *)
KeyOrder == <<"id", "type", "foo", "code", "text", "output_text", "summary",
              "content", "output", "response", "result">>

RECURSIVE Join(_, _)
Join(texts, sep) ==
    IF texts = <<>> THEN ""
    ELSE IF Len(texts) = 1 THEN texts[1]
    ELSE texts[1] \o sep \o Join(Tail(texts), sep)

RECURSIVE Stringify(_)
Stringify(v) ==
    CASE v.t = "string" -> "\"" \o v.s \o "\""
      [] v.t = "number" -> ToString(v.n)
      [] v.t = "boolean" -> IF v.b THEN "true" ELSE "false"
      [] v.t = "array" -> "[" \o Join([i \in 1..Len(v.a) |-> Stringify(v.a[i])], ",") \o "]"
      [] v.t = "object" ->
            LET keys == SelectSeq(KeyOrder, LAMBDA k : k \in DOMAIN v.o /\ v.o[k].t # "undefined")
            IN  "{" \o Join([i \in 1..Len(keys) |->
                               "\"" \o keys[i] \o "\":" \o Stringify(v.o[keys[i]])], ",") \o "}"
      [] OTHER -> "null"

(* toText, lines 169-185 *)
RECURSIVE toText(_)
toText(value) ==
    CASE Nullish(value) -> ""
      [] value.t = "string" -> value.s
      [] value.t = "number" -> ToString(value.n)
      [] value.t = "boolean" -> IF value.b THEN "true" ELSE "false"
      [] value.t = "array" -> Join([i \in 1..Len(value.a) |-> toText(value.a[i])], "\n")
      [] OTHER ->
            IF Get(value, "text").t = "string" THEN Get(value, "text").s
            ELSE IF Get(value, "output_text").t = "string" THEN Get(value, "output_text").s
            ELSE IF Get(value, "summary").t = "string" THEN Get(value, "summary").s
            ELSE IF "content" \in DOMAIN value.o THEN toText(value.o.content)
            ELSE Stringify(value)

(* Array.prototype.find on entries by their type field *)
FindType(a, type) ==
    LET hits == SelectSeq(a, LAMBDA e : IsStr(Get(e, "type"), type))
    IN  IF hits = <<>> THEN JUndef ELSE hits[1]

(* a ?? b on strings: a string is never nullish *)
OrElseNullish(a, b) == a

(* a || b on strings *)
OrElse(a, b) == IF a # "" THEN a ELSE b

(* a reply read from the top-level output_text field alone *)
replyContentTopLevelOnly(data) == OrElse(toText(Get(data, "output_text")), "No response")

(* askQuestion lines 228-248: the text of the reply *)
replyContent(data) ==
    LET output == Get(data, "output")
        outputArray == IF output.t = "array" THEN output.a ELSE <<>>
        messageBlock == FindType(outputArray, "message")
        blockContent == IF Nullish(messageBlock) THEN JUndef ELSE Get(messageBlock, "content")
        messageContent ==
            IF blockContent.t = "array"
            THEN JCoalesce(FindType(blockContent.a, "output_text"),
                           IF blockContent.a = <<>> THEN JUndef ELSE blockContent.a[1])
            ELSE JUndef
        outputEntry ==
            JCoalesce(messageContent,
              JCoalesce(FindType(outputArray, "output_text"),
                JCoalesce(Get(data, "output_text"), output)))
    IN  OrElse(toText(outputEntry),
          OrElse(toText(Get(data, "output_text")),
            OrElse(toText(Get(data, "response")),
              OrElse(toText(Get(data, "result")),
                OrElse(toText(Get(data, "text")), "No response")))))

(* bodies the chat endpoint may answer with *)
AskBodies ==
    { JObj([id |-> JStr("resp_1"),
            output |-> JArr(<<JObj([type |-> JStr("file_search_call")]),
                              JObj([type |-> JStr("message"),
                                    content |-> JArr(<<JObj([type |-> JStr("output_text"),
                                                             text |-> JStr("Paris")])>>)])>>)]),
      JObj([output_text |-> JStr("Lyon")]),
      JObj([foo |-> JNum(1)]),
      JObj([output |-> JArr(<<JObj([type |-> JStr("message"),
                                    content |-> JArr(<<JObj([type |-> JStr("refusal"),
                                                             code |-> JNum(7)])>>)])>>)]),
      JObj([output |-> JArr(<<>>), output_text |-> JStr(""), result |-> JStr("Nice")]),
      JObj([output |-> JArr(<<JObj([type |-> JStr("message"),
                                    content |-> JArr(<<JObj([type |-> JStr("summary_text"),
                                                             text |-> JStr("Intro")]),
                                                       JObj([type |-> JStr("output_text"),
                                                             text |-> JStr("Rome")])>>)])>>)]),
      JObj([output |-> JArr(<<JObj([type |-> JStr("message"),
                                    content |-> JArr(<<JObj([type |-> JStr("output_text"),
                                                             text |-> JStr("")])>>)])>>),
            text |-> JStr("Oslo")]),
      JObj([output_text |-> JStr("")]),
      JObj([output |-> JBool(FALSE)]),
      JStr("pong"),
      JNull }

(* POST /responses *)
AskAnswers == {Good(b) : b \in AskBodies} \cup {Garbled} \cup Refusals

(* a payload that carries the question without the history *)
askPayloadQuestionOnly(question, chatHistory, settings) ==
    [model |-> settings.model,
     input |-> <<[role |-> "user", type |-> "input_text", text |-> question]>>,
     vector_store_ids |-> <<settings.vectorStoreId>>]

(* askQuestion lines 199-214: the request payload *)
askPayload(question, chatHistory, settings) ==
    [model |-> IF settings.model # "" THEN settings.model ELSE "gpt-4o-mini",
     input |-> [i \in 1..Len(chatHistory) |->
                  [role |-> chatHistory[i].role,
                   type |-> IF chatHistory[i].role = "assistant"
                            THEN "output_text" ELSE "input_text",
                   text |-> chatHistory[i].content]]
               \o <<[role |-> "user", type |-> "input_text", text |-> question]>>,
     vector_store_ids |-> <<settings.vectorStoreId>>]

(* the emptiness check without trim *)
questionIsEmptyUntrimmed(question) == question = ""

(* askQuestion line 192 *)
questionIsEmpty(question) == Trim(question) = ""

(* askQuestion lines 192-197: the failure message, or Undef *)
askPrecondition(question, settings) ==
    IF questionIsEmpty(question) THEN "Question is empty"
    ELSE ensureSettings(settings)

(* askQuestion lines 187-223 *)
CallAskQuestion(question, chatHistory, s) ==
    /\ pc = "idle"
    /\ call' = [MkCall("askQuestion", s) EXCEPT !.question = question,
                                                !.history = chatHistory]
    /\ assocs0' = assocs
    /\ IF askPrecondition(question, s) # Undef
       THEN /\ requests' = <<>>
            /\ pc' = "done"
            /\ outcome' = Fail(askPrecondition(question, s))
       ELSE /\ requests' = <<Request("ask", askPayload(question, chatHistory, s))>>
            /\ pc' = "ask"
            /\ outcome' = NoOutcome
    /\ upRaw' = NoData
    /\ upResult' = NoOutcome
    /\ files' = <<>> /\ items' = <<>> /\ pending' = {} /\ settled' = <<>>
    /\ UNCHANGED <<remoteVars, uploadedOk>>
    /\ UNCHANGED uiVars

(* askQuestion lines 225-258: what it settles with, given `parsed` *)
askReturns(parsed) ==
    IF parsed.kind # "ok" THEN parsed
    ELSE IF Nullish(parsed.data)
    THEN Thrown("TypeError: parsed.data is null")
    ELSE Ok([id |-> JCoalesce(Get(parsed.data, "id"), JStr("randomUUID")),
             role |-> "assistant",
             content |-> replyContent(parsed.data)])

(* askQuestion lines 225-258 *)
askSettles(res) ==
    /\ requests' = Answered(requests, 1, res)
    /\ pc' = "done"
    /\ outcome' = askReturns(fetchResult(res))

AskResponse ==
    /\ pc = "ask"
    /\ \E res \in AskAnswers : askSettles(res)
    /\ UNCHANGED <<call, upRaw, upResult, listVars, remoteVars, uploadedOk, assocs0>>
    /\ UNCHANGED uiVars

----------------------------------------------------------------------------
(* The caller's `await` of the call resumes with the settled result *)
Return ==
    /\ pc = "done"
    /\ pc' = "idle"
    /\ call' = NoCall
    /\ requests' = <<>>
    /\ outcome' = NoOutcome
    /\ upRaw' = NoData
    /\ upResult' = NoOutcome
    /\ files' = <<>> /\ items' = <<>> /\ pending' = {} /\ settled' = <<>>
    /\ assocs0' = assocs
    /\ UNCHANGED <<remoteVars, uploadedOk>>
    /\ UNCHANGED uiVars

Next ==
    \/ \E f \in FileNames, s \in SettingsSet : CallUploadFile(f, s)
    \/ \E id \in AllAssocIds, f \in FileNames, s \in SettingsSet : CallReplaceFile(id, f, s)
    \/ \E id \in AllAssocIds, s \in SettingsSet : CallDeleteFile(id, s)
    \/ \E s \in SettingsSet : CallListFiles(s)
    \/ ListResponse
    \/ DetailResponse
    \/ \E name \in StoreNames, s \in SettingsSet : CallCreateVectorStore(name, s)
    \/ CreateResponse
    \/ \E q \in Questions, h \in Histories, s \in SettingsSet : CallAskQuestion(q, h, s)
    \/ AskResponse
    \/ UploadResponse
    \/ AttachResponse
    \/ DeleteResponse
    \/ Return

Spec == Init /\ [][Next]_vars

----------------------------------------------------------------------------
(* The page (src/src/App.tsx): its handlers run against the same remote.   *)
(* A handler runs up to its await of the client call; the client's fetches *)
(* are served by the remote in one step and their responses reach the      *)
(* client in a later one, so that handlers in flight interleave with each  *)
(* other and with the remote.  A run makes at most MaxStarted handler      *)
(* invocations, one of each handler at a time and at most MaxInFlight in   *)
(* flight together.                                                        *)

MaxInFlight == 2

MaxStarted == 3

(* App.tsx lines 26-29 *)
ready == uiSettings.apiKey # "" /\ uiSettings.vectorStoreId # ""

InFlight == {h \in Handlers : task[h].stage # "idle"}

Starts(h) ==
    /\ task[h].stage = "idle"
    /\ Cardinality(InFlight) < MaxInFlight
    /\ started < MaxStarted
    /\ started' = started + 1

(* the client call issues a fetch and the handler is suspended at its await *)
Awaiting(t, kind, payload) == [t EXCEPT !.stage = "sent", !.req = Request(kind, payload)]

Ids(list) == {list[i].id : i \in 1..Len(list)}

(* the answers the remote can give to the fetch a task awaits, each with   *)
(* the remote state it leaves behind                                       *)
AnswersFor(t) ==
    CASE t.req.kind = "upload" ->
            {[res |-> a.res, raw |-> a.raw, next |-> a.next, assocs |-> assocs] :
                a \in UploadAnswers(t.req.arg.name)}
      [] t.req.kind = "attach" ->
            {[res |-> a.res, raw |-> rawFiles, next |-> nextFile, assocs |-> a.assocs] :
                a \in AttachAnswers(t.req.arg.file_id)}
      [] t.req.kind = "delete" ->
            {[res |-> a.res, raw |-> rawFiles, next |-> nextFile, assocs |-> a.assocs] :
                a \in DeleteAnswers(t.req.arg.id)}
      [] t.req.kind = "list" ->
            {[res |-> r, raw |-> rawFiles, next |-> nextFile, assocs |-> assocs] :
                r \in ListAnswers(t.req.arg.limit)}
      [] t.req.kind = "ask" ->
            {[res |-> r, raw |-> rawFiles, next |-> nextFile, assocs |-> assocs] :
                r \in AskAnswers}

(* the remote serves the fetch that handler h awaits *)
Serve(h) ==
    /\ task[h].stage = "sent"
    /\ \E ans \in AnswersFor(task[h]) :
          /\ task' = [task EXCEPT ![h].stage = "served", ![h].req.res = ans.res]
          /\ rawFiles' = ans.raw
          /\ nextFile' = ans.next
          /\ assocs' = ans.assocs
    /\ UNCHANGED <<uiSettings, uiFiles, filesLoading, uploading, error, chatMessages,
                   chatSending, clientVars, started>>

(* what stays as it is while a handler other than handleAsk runs *)
chatVars == <<chatMessages, chatSending>>

(* refreshFiles, App.tsx lines 36-43: up to the await of listFiles; with   *)
(* `ready` the settings check of the client passes and the fetch is issued *)
refreshFiles ==
    /\ Starts("refresh")
    /\ IF ~ready
       THEN /\ error' = "Add an API key and vector store to start."
            /\ UNCHANGED <<filesLoading, task>>
       ELSE /\ filesLoading' = TRUE
            /\ error' = NoError
            /\ task' = [task EXCEPT !["refresh"] =
                            Awaiting(IdleTask, "list", [limit |-> PageLimit])]
    /\ UNCHANGED <<uiSettings, uiFiles, uploading, chatVars, remoteVars, clientVars>>

(* refreshFiles, App.tsx lines 43-49: the await of listFiles resumes; a    *)
(* rejection leaves the handler at the await                               *)
refreshResumes(result) ==
    /\ task' = [task EXCEPT !["refresh"] = IdleTask]
    /\ IF result.kind = "throw"
       THEN UNCHANGED <<filesLoading, error, uiFiles>>
       ELSE /\ filesLoading' = FALSE
            /\ IF result.kind = "fail"
               THEN error' = result.error /\ UNCHANGED uiFiles
               ELSE uiFiles' = result.data.items /\ UNCHANGED error

(* listFiles lines 57-60: the listing response reaches the client *)
RefreshListed ==
    /\ task["refresh"].stage = "served"
    /\ LET parsed == fetchResult(task["refresh"].req.res)
       IN  IF ~listFansOut(parsed) THEN refreshResumes(parsed)
           ELSE IF ~parsed.data.hasData
           THEN refreshResumes(Thrown("TypeError: parsed.data.data is undefined"))
           ELSE IF parsed.data.data = <<>> THEN refreshResumes(Ok([items |-> <<>>]))
           ELSE /\ task' = [task EXCEPT !["refresh"].stage = "details"]
                /\ UNCHANGED <<filesLoading, error, uiFiles>>
    /\ UNCHANGED <<uiSettings, uploading, chatVars, remoteVars, clientVars, started>>

(* one response per listed item to the detail fetches of lines 71-74 *)
DetailChoices(data) ==
    LET answers(i) == DetailAnswers(detailRequest(data[i]).arg.file_id)
    IN  {ds \in [1..Len(data) -> UNION {answers(i) : i \in 1..Len(data)}] :
            \A i \in 1..Len(data) : ds[i] \in answers(i)}

(* listFiles lines 60-93: every detail fetch has settled *)
RefreshDetailed ==
    /\ task["refresh"].stage = "details"
    /\ LET data == task["refresh"].req.res.body.data
       IN  \E ds \in DetailChoices(data) :
              refreshResumes(Ok([items |-> [i \in 1..Len(data) |->
                                              enrich(baseFile(data[i]), ds[i])]]))
    /\ UNCHANGED <<uiSettings, uploading, chatVars, remoteVars, clientVars, started>>

(* uploadFile lines 112-134 for the task of handleUpload or handleReplace: *)
(* the response of the raw-file step or of the attach step reaches the     *)
(* client, which goes on to the attach or settles with `result`            *)
uploadStep(t) ==
    IF t.req.kind = "upload"
    THEN LET uploaded == fetchResult(t.req.res)
         IN  IF uploadAttaches(uploaded)
             THEN [done |-> FALSE, result |-> NoOutcome,
                   task |-> [Awaiting(t, "attach", [file_id |-> uploaded.data.id])
                                EXCEPT !.upRaw = uploaded.data]]
             ELSE [done |-> TRUE, result |-> uploaded, task |-> t]
    ELSE LET attached == fetchResult(t.req.res)
         IN  [done |-> TRUE, task |-> t,
              result |-> IF attached.kind = "ok"
                         THEN Ok(knowledgeFile(attached.data, t.upRaw, t.arg.file))
                         ELSE attached]

(* handleUpload, App.tsx lines 59-63; the button is disabled while         *)
(* `uploading` or not `ready` (line 371)                                   *)
handleUpload(f) ==
    /\ Starts("upload")
    /\ ready /\ ~uploading
    /\ uploading' = TRUE
    /\ error' = NoError
    /\ task' = [task EXCEPT !["upload"] =
                    Awaiting([IdleTask EXCEPT !.arg.file = f], "upload", [name |-> f])]
    /\ UNCHANGED <<uiSettings, uiFiles, filesLoading, chatVars, remoteVars, clientVars>>

(* handleUpload, App.tsx lines 63-71 *)
HandleUploadResumes ==
    /\ task["upload"].stage = "served"
    /\ LET step == uploadStep(task["upload"])
       IN  IF ~step.done
           THEN /\ task' = [task EXCEPT !["upload"] = step.task]
                /\ UNCHANGED <<uploading, error, uiFiles>>
           ELSE /\ task' = [task EXCEPT !["upload"] = IdleTask]
                /\ IF step.result.kind = "throw"
                   THEN UNCHANGED <<uploading, error, uiFiles>>
                   ELSE /\ uploading' = FALSE
                        /\ IF step.result.kind = "fail"
                           THEN error' = step.result.error /\ UNCHANGED uiFiles
                           ELSE /\ uiFiles' = <<step.result.data>> \o uiFiles
                                /\ UNCHANGED error
    /\ UNCHANGED <<uiSettings, filesLoading, chatVars, remoteVars, clientVars, started>>

(* a row's controls are rendered for the entries of `files` while the list *)
(* is not loading, on a ready page (App.tsx lines 702-737)                 *)
RowShown(fileId) == ready /\ ~filesLoading /\ fileId \in Ids(uiFiles)

(* handleReplace, App.tsx lines 74-77 *)
handleReplace(existingFileId, f) ==
    /\ Starts("replace")
    /\ RowShown(existingFileId)
    /\ uploading' = TRUE
    /\ task' = [task EXCEPT !["replace"] =
                    Awaiting([IdleTask EXCEPT !.arg.file = f,
                                              !.arg.fileId = existingFileId],
                             "upload", [name |-> f])]
    /\ UNCHANGED <<uiSettings, uiFiles, filesLoading, error, chatVars, remoteVars,
                   clientVars>>

(* handleReplace, App.tsx lines 77-85: the await of replaceFile resumes *)
replaceResumes(result) ==
    /\ task' = [task EXCEPT !["replace"] = IdleTask]
    /\ IF result.kind = "throw"
       THEN UNCHANGED <<uploading, error, uiFiles>>
       ELSE /\ uploading' = FALSE
            /\ IF result.kind = "fail"
               THEN error' = result.error /\ UNCHANGED uiFiles
               ELSE /\ uiFiles' =
                          <<result.data>> \o
                          SelectSeq(uiFiles,
                                    LAMBDA e : e.id # task["replace"].arg.fileId)
                    /\ UNCHANGED error

(* replaceFile lines 162-166 under handleReplace: a response reaches the   *)
(* client, which goes on to the next fetch or settles                      *)
HandleReplaceResumes ==
    /\ task["replace"].stage = "served"
    /\ LET t == task["replace"]
       IN  IF t.req.kind = "delete"
           THEN LET parsed == fetchResult(t.req.res)
                    deleted == IF parsed.kind = "ok" THEN Ok([value |-> TRUE]) ELSE parsed
                IN  replaceResumes(replaceReturns(t.upResult, deleted))
           ELSE LET step == uploadStep(t)
                IN  IF ~step.done
                    THEN /\ task' = [task EXCEPT !["replace"] = step.task]
                         /\ UNCHANGED <<uploading, error, uiFiles>>
                    ELSE IF replaceDeletes(step.result)
                    THEN /\ task' = [task EXCEPT !["replace"] =
                                        Awaiting([t EXCEPT !.upResult = step.result],
                                                 "delete", [id |-> t.arg.fileId])]
                         /\ UNCHANGED <<uploading, error, uiFiles>>
                    ELSE replaceResumes(step.result)
    /\ UNCHANGED <<uiSettings, filesLoading, chatVars, remoteVars, clientVars, started>>

(* handleDelete, App.tsx lines 88-93; confirm is the answer given to       *)
(* window.confirm                                                          *)
handleDelete(fileId, confirm) ==
    /\ Starts("delete")
    /\ RowShown(fileId)
    /\ IF ~confirm
       THEN UNCHANGED task
       ELSE task' = [task EXCEPT !["delete"] =
                        Awaiting([IdleTask EXCEPT !.arg.fileId = fileId],
                                 "delete", [id |-> fileId])]
    /\ UNCHANGED <<uiSettings, uiFiles, filesLoading, uploading, error, chatVars,
                   remoteVars, clientVars>>

(* handleDelete, App.tsx lines 93-99 *)
HandleDeleteResumes ==
    /\ task["delete"].stage = "served"
    /\ task' = [task EXCEPT !["delete"] = IdleTask]
    /\ LET result == fetchResult(task["delete"].req.res)
       IN  CASE result.kind = "throw" -> UNCHANGED <<error, uiFiles>>
             [] result.kind = "fail" -> error' = result.error /\ UNCHANGED uiFiles
             [] OTHER -> /\ uiFiles' = SelectSeq(uiFiles,
                                                 LAMBDA e : e.id # task["delete"].arg.fileId)
                         /\ UNCHANGED error
    /\ UNCHANGED <<uiSettings, filesLoading, uploading, chatVars, remoteVars, clientVars, started>>

(* handleAsk, App.tsx lines 102-119, entered from the chat form with the   *)
(* trimmed input (lines 541-546); the send button is disabled while        *)
(* sending, not ready, or the input is blank (line 612)                    *)
handleAsk(question) ==
    /\ Starts("ask")
    /\ ready /\ ~chatSending /\ Trim(question) # ""
    /\ LET trimmed == Trim(question)
           userMessage == [id |-> JStr("randomUUID"), role |-> "user", content |-> trimmed]
           chatHistory == chatMessages \o <<userMessage>>
       IN  /\ chatMessages' = Append(chatMessages, userMessage)
           /\ chatSending' = TRUE
           /\ task' = [task EXCEPT !["ask"] =
                           Awaiting([IdleTask EXCEPT !.arg.question = trimmed,
                                                     !.arg.history = chatHistory],
                                    "ask", askPayload(trimmed, chatHistory, uiSettings))]
    /\ UNCHANGED <<uiSettings, uiFiles, filesLoading, uploading, error, remoteVars,
                   clientVars>>

(* handleAsk, App.tsx lines 119-126 *)
HandleAskResumes ==
    /\ task["ask"].stage = "served"
    /\ task' = [task EXCEPT !["ask"] = IdleTask]
    /\ LET result == askReturns(fetchResult(task["ask"].req.res))
       IN  IF result.kind = "throw"
           THEN UNCHANGED <<chatSending, error, chatMessages>>
           ELSE /\ chatSending' = FALSE
                /\ IF result.kind = "fail"
                   THEN error' = result.error /\ UNCHANGED chatMessages
                   ELSE /\ chatMessages' = Append(chatMessages, result.data)
                        /\ UNCHANGED error
    /\ UNCHANGED <<uiSettings, uiFiles, filesLoading, uploading, remoteVars, clientVars, started>>

UIInit == (\E s \in SettingsSet : AppMounts(s)) /\ ClientInit

UINext ==
    \/ refreshFiles
    \/ RefreshListed
    \/ RefreshDetailed
    \/ \E f \in FileNames : handleUpload(f)
    \/ HandleUploadResumes
    \/ \E id \in AllAssocIds \cup {RawId(n) : n \in 1..MaxFiles}, f \in FileNames :
          handleReplace(id, f)
    \/ HandleReplaceResumes
    \/ \E id \in AllAssocIds \cup {RawId(n) : n \in 1..MaxFiles}, confirm \in BOOLEAN :
          handleDelete(id, confirm)
    \/ HandleDeleteResumes
    \/ \E q \in Questions : handleAsk(q)
    \/ HandleAskResumes
    \/ \E h \in Handlers : Serve(h)

UISpec == UIInit /\ [][UINext]_vars

----------------------------------------------------------------------------
(* Properties *)

ResultOps == {"listFiles", "uploadFile", "deleteFile", "replaceFile", "askQuestion"}

MissingSettings(settings) == settings.apiKey = "" \/ settings.vectorStoreId = ""

(* the response arrived with a 2xx status and a body that parsed *)
Succeeded(res) == res.net /\ res.ok /\ res.json

(* the request was answered with a non-2xx status, or its fetch was rejected *)
Failed(res) == res # Pending /\ (~res.net \/ ~res.ok)

IsBlank(text) == \A i \in 1..Len(text) : SubSeq(text, i, i) \in Whitespace

(* C1: with an empty apiKey or an empty vectorStoreId, each of listFiles,  *)
(* uploadFile, deleteFile, replaceFile and askQuestion returns a failure   *)
(* result and issues no request.                                           *)
C1_MissingSettingsFail ==
    (call.op \in ResultOps /\ MissingSettings(call.settings))
        => (pc = "done" /\ outcome.kind = "fail" /\ requests = <<>>)

C1_Witness ==
    /\ call.op = "replaceFile"
    /\ call.settings.apiKey = "sk"
    /\ call.settings.vectorStoreId = ""
    /\ outcome = Fail("Missing vector store id")
    /\ requests = <<>>

(* C2: replaceFile issues the delete only after the upload succeeded, and  *)
(* returns exactly the upload's result whether the delete then succeeds or *)
(* fails.                                                                  *)
C2_ReplaceReturnsUpload ==
    (call.op = "replaceFile" /\ Issued("delete") # {})
        => /\ upResult.kind = "ok"
           /\ Succeeded(requests[1].res) /\ Succeeded(requests[2].res)
           /\ pc = "done" => outcome = upResult

(* C3: when the old association exists as replaceFile starts, the store    *)
(* holds the old association or the newly attached one in every state up   *)
(* to and including the return.                                            *)
C3_NeverZeroVersions ==
    (call.op = "replaceFile" /\ \E a \in assocs0 : a.id = call.fileId)
        => \E a \in assocs : a.id = call.fileId \/ a \notin assocs0

C3_Witness ==
    /\ call.op = "replaceFile"
    /\ pc = "done"
    /\ outcome.kind = "ok"
    /\ \E a \in assocs0 : a.id = call.fileId
    /\ \A a \in assocs : a.id # call.fileId
    /\ \E a \in assocs : a \notin assocs0

(* C4: uploadFile attaches only after the raw-file step succeeded; when    *)
(* the raw-file step fails the result is that step's error and no attach   *)
(* is made; when the attach fails the result is the attach's error; a      *)
(* success is returned only when both steps succeeded.                     *)
C4_UploadSteps ==
    call.op = "uploadFile" =>
        /\ Issued("attach") # {} => Succeeded(requests[1].res)
        /\ (pc = "done" /\ requests # <<>> /\ Failed(requests[1].res))
              => /\ outcome = Fail(fetchResult(requests[1].res).error)
                 /\ Issued("attach") = {}
        /\ (pc = "done" /\ Len(requests) = 2 /\ Failed(requests[2].res))
              => outcome = Fail(fetchResult(requests[2].res).error)
        /\ outcome.kind = "ok"
              => Len(requests) = 2 /\ \A i \in 1..2 : Succeeded(requests[i].res)

(* C5: for every outcome of the remote requests, listFiles, uploadFile,    *)
(* deleteFile, replaceFile and askQuestion settle by returning an          *)
(* ApiResult, never by throwing; createVectorStore throws only for its     *)
(* preconditions.                                                          *)
C5_NeverThrows ==
    pc = "done" =>
        /\ call.op \in ResultOps => outcome.kind \in {"ok", "fail"}
        /\ (call.op = "createVectorStore" /\ outcome.kind = "throw") => requests = <<>>

(* C6: in listFiles a failed primary request makes the operation return a  *)
(* failure carrying that request's error with no detail fetch issued; a    *)
(* primary request that succeeded makes it return success with one entry   *)
(* per listed association, whatever the detail fetches' outcomes.          *)
C6_ListPrimaryDecides ==
    (call.op = "listFiles" /\ requests # <<>>) =>
        /\ Failed(requests[1].res)
              => /\ pc = "done"
                 /\ outcome = Fail(fetchResult(requests[1].res).error)
                 /\ Issued("detail") = {}
        /\ (pc = "done" /\ Succeeded(requests[1].res) /\ requests[1].res.body.hasData)
              => /\ outcome.kind = "ok"
                 /\ Len(outcome.data.items) = Len(requests[1].res.body.data)

(* C7: every detail fetch is issued before any of them has settled, and    *)
(* for every order in which they settle the sequence listFiles returns has *)
(* the length of the listing and its i-th entry has the id of the          *)
(* listing's i-th item.                                                    *)
C7_ListKeepsOrder ==
    /\ (call.op = "listFiles" /\ pc = "details")
          => Len(requests) = 1 + Len(requests[1].res.body.data)
    /\ (call.op = "listFiles" /\ pc = "done" /\ outcome.kind = "ok") =>
          LET data == requests[1].res.body.data
          IN  /\ Len(outcome.data.items) = Len(data)
              /\ \A i \in 1..Len(data) : outcome.data.items[i].id = data[i].id

C7_Witness ==
    /\ call.op = "listFiles"
    /\ pc = "done"
    /\ outcome.kind = "ok"
    /\ settled = <<2, 1>>
    /\ outcome.data.items[1].id # outcome.data.items[2].id

(* the listing item or the detail response of entry i supplied a filename *)
NameSupplied(i) ==
    \/ requests[1].res.body.data[i].filename # Undef
    \/ Succeeded(requests[1 + i].res) /\ requests[1 + i].res.body.filename # Undef

(* C8, as claimed: after uploadFile of F returned success, every later     *)
(* successful listFiles returns an entry whose filename is F's name, until *)
(* the association is deleted.                                             *)
C8_ListShowsUploadedName ==
    (call.op = "listFiles" /\ pc = "done" /\ outcome.kind = "ok") =>
        \A u \in uploadedOk :
            \E i \in 1..Len(outcome.data.items) : outcome.data.items[i].filename = u.name

(* C8, amended: with at most PageLimit associations in the store, every    *)
(* later successful listFiles returns an entry for F's association until   *)
(* it is deleted; the entry's filename is F's name when the listing item   *)
(* or the item's detail response supplied a filename, and the raw-file id  *)
(* otherwise.                                                              *)
C8_ListShowsUploadedEntry ==
    (call.op = "listFiles" /\ pc = "done" /\ outcome.kind = "ok"
        /\ Cardinality(assocs0) <= PageLimit) =>
        \A u \in uploadedOk :
            \E i \in 1..Len(outcome.data.items) :
                LET entry == outcome.data.items[i]
                IN  /\ entry.id = u.assoc
                    /\ entry.filename = IF NameSupplied(i)
                                        THEN u.name
                                        ELSE requests[1].res.body.data[i].file_id

C8_Witness ==
    /\ call.op = "listFiles"
    /\ pc = "done"
    /\ outcome.kind = "ok"
    /\ \E u \in uploadedOk :
          \E i \in 1..Len(outcome.data.items) :
              /\ outcome.data.items[i].id = u.assoc
              /\ requests[1].res.body.data[i].filename = Undef
              /\ outcome.data.items[i].filename = u.name

(* C9: createVectorStore throws, before any request, when the trimmed name *)
(* is empty and when apiKey is empty; otherwise it issues exactly one      *)
(* create-store request and returns that request's ApiResult.              *)
C9_CreateStore ==
    (call.op = "createVectorStore" /\ pc = "done") =>
        IF IsBlank(call.name) \/ call.settings.apiKey = ""
        THEN outcome.kind = "throw" /\ requests = <<>>
        ELSE /\ Len(requests) = 1
             /\ requests[1].kind = "createStore"
             /\ outcome.kind \in {"ok", "fail"}
             /\ requests[1].res.net /\ outcome = handleResponse(requests[1].res)

(* C10: for an empty or whitespace-only question, with any history and     *)
(* settings, askQuestion returns a failure and issues no request.          *)
C10_BlankQuestionFails ==
    (call.op = "askQuestion" /\ IsBlank(call.question))
        => (pc = "done" /\ outcome.kind = "fail" /\ requests = <<>>)

C10_Witness ==
    /\ call.op = "askQuestion"
    /\ call.question = " \t\n"
    /\ call.history # <<>>
    /\ ~MissingSettings(call.settings)
    /\ outcome = Fail("Question is empty")
    /\ requests = <<>>

(* askQuestion returned a chat message *)
AskReplied == call.op = "askQuestion" /\ pc = "done" /\ outcome.kind = "ok"

ReplyBody == requests[1].res.body

HasOutputArray(data) == Get(data, "output").t = "array"

(* the content array of the first "message" entry of the output array *)
MessageContent(data) ==
    LET m == FindType(IF HasOutputArray(data) THEN Get(data, "output").a ELSE <<>>, "message")
    IN  IF Get(m, "content").t = "array" THEN Get(m, "content").a ELSE <<>>

OutputTextItems(content) == SelectSeq(content, LAMBDA c : IsStr(Get(c, "type"), "output_text"))

RecognizedFields == {"output", "output_text", "response", "result", "text"}

(* C11, as claimed: a "message" entry whose content has an "output_text"   *)
(* item with text t makes the reply's content t (else the first content    *)
(* item is used); with no output array and a string s as top-level         *)
(* output_text the content is s; with none of the recognized fields the    *)
(* content is "No response".                                               *)
C11_FallbackChain ==
    AskReplied =>
        LET data == ReplyBody
            content == outcome.data.content
            parts == MessageContent(data)
            texts == OutputTextItems(parts)
        IN  /\ (texts # <<>> /\ Get(texts[1], "text").t = "string")
                  => content = Get(texts[1], "text").s
            /\ (texts = <<>> /\ parts # <<>>) => content = toText(parts[1])
            /\ (~HasOutputArray(data) /\ Get(data, "output_text").t = "string")
                  => content = Get(data, "output_text").s
            /\ (data.t # "object" \/ DOMAIN data.o \cap RecognizedFields = {})
                  => content = "No response"

(* C11, amended: the same chain for a non-empty text t, a first content    *)
(* item whose text is non-empty, and a non-empty string s; an empty text   *)
(* counts as absent and the chain moves on to the next field.              *)
C11_FallbackChainNonEmpty ==
    AskReplied =>
        LET data == ReplyBody
            content == outcome.data.content
            parts == MessageContent(data)
            texts == OutputTextItems(parts)
        IN  /\ (texts # <<>> /\ Get(texts[1], "text").t = "string"
                    /\ Get(texts[1], "text").s # "")
                  => content = Get(texts[1], "text").s
            /\ (texts = <<>> /\ parts # <<>> /\ toText(parts[1]) # "")
                  => content = toText(parts[1])
            /\ (~HasOutputArray(data) /\ Get(data, "output_text").t = "string"
                    /\ Get(data, "output_text").s # "")
                  => content = Get(data, "output_text").s
            /\ (data.t # "object" \/ DOMAIN data.o \cap RecognizedFields = {})
                  => content = "No response"

C11_Witness ==
    /\ AskReplied
    /\ Len(MessageContent(ReplyBody)) = 2
    /\ IsStr(Get(MessageContent(ReplyBody)[1], "type"), "summary_text")
    /\ outcome.data.content = "Rome"

(* the request's failure is reported by the operation: every request but   *)
(* a detail fetch of listFiles and the delete of replaceFile               *)
Reported(i) ==
    /\ requests[i].kind # "detail"
    /\ ~(call.op = "replaceFile" /\ requests[i].kind = "delete")

(* C12: for every non-2xx response the operation's failure message is the  *)
(* body's error.message when the body parses and carries it, and           *)
(* "<status> <statusText>" otherwise; the operation returns that failure   *)
(* and does not throw.                                                     *)
C12_ErrorMessage ==
    \A i \in 1..Len(requests) :
        LET res == requests[i].res
        IN  (res.net /\ ~res.ok /\ Reported(i)) =>
                /\ pc = "done"
                /\ outcome.kind = "fail"
                /\ outcome.error = IF res.json /\ res.body.error_message # Undef
                                   THEN res.body.error_message
                                   ELSE res.status

C12_Witness ==
    /\ call.op = "uploadFile"
    /\ Len(requests) = 2
    /\ requests[2].res.net /\ ~requests[2].res.ok /\ ~requests[2].res.json
    /\ outcome = Fail("502 Bad Gateway")

(* C13: for every history h and non-blank question q, askQuestion sends a  *)
(* single request whose input has length |h|+1: the messages of h in order *)
(* with role and text preserved, assistant messages tagged "output_text"   *)
(* and the others "input_text", then a user turn with text q; h itself is  *)
(* left as it was passed.                                                  *)
C13_AskInput ==
    (call.op = "askQuestion" /\ requests # <<>>) =>
        LET h == call.history
            input == requests[1].arg.input
        IN  /\ Len(requests) = 1
            /\ h \in Histories
            /\ Len(input) = Len(h) + 1
            /\ \A i \in 1..Len(h) :
                  /\ input[i].role = h[i].role
                  /\ input[i].text = h[i].content
                  /\ input[i].type = IF h[i].role = "assistant"
                                     THEN "output_text" ELSE "input_text"
            /\ input[Len(h) + 1] =
                  [role |-> "user", type |-> "input_text", text |-> call.question]

C13_Witness ==
    /\ call.op = "askQuestion"
    /\ pc = "ask"
    /\ Len(call.history) = 3
    /\ Len(requests[1].arg.input) = 4
    /\ \E i \in 1..3 : requests[1].arg.input[i].type = "output_text"
    /\ requests[1].arg.input[4].text = " hi "

(* the number of associations the listing response of listFiles returned *)
Listed ==
    IF requests # <<>> /\ Succeeded(requests[1].res) /\ requests[1].res.body.hasData
    THEN Len(requests[1].res.body.data)
    ELSE 0

(* the requests of the running call stay within the operation's budget *)
RequestBudget ==
    /\ call.op \in {"deleteFile", "createVectorStore", "askQuestion"} => Len(requests) <= 1
    /\ call.op = "uploadFile" => Len(requests) <= 2
    /\ call.op = "replaceFile" => Len(requests) <= 3
    /\ call.op = "listFiles" =>
          /\ Cardinality(Issued("list")) = IF MissingSettings(call.settings) THEN 0 ELSE 1
          /\ Cardinality(Issued("detail")) <= Listed
          /\ Cardinality(Issued("list") \cup Issued("detail")) = Len(requests)
          /\ \A i, j \in Issued("detail") : requests[i].arg = requests[j].arg => i = j
    /\ \A i \in 1..Len(requests) :
          (Failed(requests[i].res) /\ requests[i].kind # "detail")
              => pc = "done" /\ i = Len(requests)

(* C14: no operation retries: once a request of a call has failed the call *)
(* issues no further request, and a failed request other than a detail     *)
(* fetch ends the call; per call deleteFile, createVectorStore and         *)
(* askQuestion issue at most 1 request, uploadFile at most 2, replaceFile  *)
(* at most 3, listFiles exactly 1 list request plus at most one detail     *)
(* request per listed association.                                         *)
C14_NoRetry ==
    /\ []RequestBudget
    /\ [][(\E i \in 1..Len(requests) : Failed(requests[i].res))
              => Len(requests') <= Len(requests)]_vars

C14_Witness ==
    /\ call.op = "replaceFile"
    /\ pc = "done"
    /\ Len(requests) = 3
    /\ Failed(requests[3].res)

(* listFiles returned its entries *)
ListReturned == call.op = "listFiles" /\ pc = "done" /\ outcome.kind = "ok"

(* C15: for each listed association, when its detail fetch fails or its    *)
(* body does not parse the returned entry is the one built from the        *)
(* listing item alone; when it succeeds, filename, bytes, metadata and     *)
(* created_at are the detail's where the detail supplies them and the      *)
(* listing's otherwise, and id and status are always the listing's.        *)
C15_EnrichFrame ==
    ListReturned =>
        \A i \in 1..Len(outcome.data.items) :
            LET item == requests[1].res.body.data[i]
                res == requests[1 + i].res
                primary == files[i]
                entry == outcome.data.items[i]
            IN  /\ entry.id = item.id
                /\ entry.status = IF item.status # Undef THEN item.status ELSE "unknown"
                /\ ~Succeeded(res) => entry = primary
                /\ Succeeded(res) =>
                      /\ entry.filename = IF res.body.filename # Undef
                                          THEN res.body.filename ELSE primary.filename
                      /\ entry.bytes = IF ~Nullish(res.body.bytes)
                                       THEN res.body.bytes ELSE primary.bytes
                      /\ entry.metadata = IF ~Nullish(res.body.metadata)
                                          THEN res.body.metadata ELSE primary.metadata
                      /\ entry.created_at = IF ~Nullish(res.body.created_at)
                                            THEN res.body.created_at ELSE primary.created_at

C15_Witness ==
    /\ ListReturned
    /\ Len(outcome.data.items) = 2
    /\ Succeeded(requests[2].res) /\ requests[2].res.body.status = "processed"
    /\ requests[2].res.body.filename = Undef
    /\ outcome.data.items[1].bytes # files[1].bytes
    /\ outcome.data.items[1].status = "completed"
    /\ ~requests[3].res.ok
    /\ outcome.data.items[2] = files[2]

(* the value is a unix timestamp in seconds: an instant not after the      *)
(* clock's reading in seconds                                              *)
InSeconds(v) == v.t = "number" /\ v.n <= NowSeconds

(* C16: every KnowledgeFile returned by uploadFile or listFiles has        *)
(* created_at as a unix timestamp in seconds, also when the remote omits   *)
(* created_at and the client supplies it.                                  *)
C16_CreatedAtSeconds ==
    /\ (call.op = "uploadFile" /\ pc = "done" /\ outcome.kind = "ok")
          => InSeconds(outcome.data.created_at)
    /\ ListReturned =>
          \A i \in 1..Len(outcome.data.items) : InSeconds(outcome.data.items[i].created_at)

(* C17: whenever askQuestion returns success, whatever the shape of the    *)
(* response body, the returned message has role "assistant" and a content  *)
(* that is a non-empty string.                                             *)
C17_ReplyNonEmpty ==
    AskReplied =>
        /\ outcome.data.role = "assistant"
        /\ Len(outcome.data.content) > 0

C17_Witness ==
    /\ AskReplied
    /\ ReplyBody = JObj([output_text |-> JStr("")])
    /\ outcome.data.content = "No response"

(* C18: once a started refresh, upload, replace or ask has run to its end  *)
(* (the remote answered or the request failed) its busy flag is false      *)
(* again, for every remote outcome: no flag is left true with no handler   *)
(* in flight that would clear it.                                          *)
C18_BusyFlagsClear ==
    /\ task["refresh"].stage = "idle" => ~filesLoading
    /\ (task["upload"].stage = "idle" /\ task["replace"].stage = "idle") => ~uploading
    /\ task["ask"].stage = "idle" => ~chatSending

(* C19: under every interleaving of the refresh, upload, replace and       *)
(* delete handlers with the remote's responses, the local file list never  *)
(* holds two entries with the same id.                                     *)
C19_UniqueIds ==
    \A i, j \in 1..Len(uiFiles) : uiFiles[i].id = uiFiles[j].id => i = j

(* C20: while handleAsk awaits askQuestion for the question q asked after  *)
(* the conversation c, the request's input is the messages of c followed   *)
(* by q as a user turn exactly once.                                       *)
C20_QuestionOnce ==
    task["ask"].stage # "idle" =>
        LET input == task["ask"].req.arg.input
            q == task["ask"].arg.question
            c == SubSeq(chatMessages, 1, Len(chatMessages) - 1)
        IN  /\ Len(input) = Len(c) + 1
            /\ \A i \in 1..Len(c) :
                  input[i].role = c[i].role /\ input[i].text = c[i].content
            /\ Cardinality({i \in (Len(c) + 1)..Len(input) :
                               input[i].role = "user" /\ input[i].text = q}) = 1

====
